---- MODULE Spec2Model ----
(***************************************************************************)
(* A model of rendology's deferred shading pipeline                        *)
(* (src/pipeline/deferred/mod.rs) and of the per-kind primitive registry,  *)
(* render list and instancing buffers (src/basic_obj/mod.rs).              *)
(*                                                                         *)
(* Every fallible GPU call (texture, program, buffer or framebuffer        *)
(* creation, buffer upload, draw submission) is an input of the action     *)
(* that issues it: the action is given the place at which the device       *)
(* fails, or "none".  Floating point values are modelled by integers; the  *)
(* lights of the model are chosen so that the radius formula is exact.     *)
(***************************************************************************)
EXTENDS Integers, Sequences, FiniteSets, TLC

VARIABLES
    ds,           \* the DeferredShading object, or NoObject before create
    ret,          \* what the last call on ds was and what it returned
    resources,    \* basic_obj::Resources, or NoResources
    render_list,  \* basic_obj::RenderList: one sublist per kind index
    instancing,   \* basic_obj::Instancing: one GPU buffer per kind index
    oret,         \* what the last basic_obj call was and what it returned
    phase         \* the phase of the frame the pipeline driver is to run next

vars == <<ds, ret, resources, render_list, instancing, oret, phase>>
dsVars == <<ds, ret>>
objVars == <<resources, render_list, instancing, oret>>

(***************************************************************************)
(* Bounds of the model.                                                    *)
(***************************************************************************)
MaxLights == 2     \* longest light slice passed to light_pass
MaxRecords == 2    \* most instance records held by a render list

(***************************************************************************)
(* Small helpers.                                                          *)
(***************************************************************************)
Max2(a, b) == IF a >= b THEN a ELSE b

SeqsUpTo(S, n) == UNION {[1..k -> S] : k \in 0..n}

RECURSIVE TrueFrom(_, _)
\* the indices j >= i of the sequence of booleans `flags`, ascending, with flags[j]
TrueFrom(flags, i) ==
    IF i > Len(flags) THEN <<>>
    ELSE (IF flags[i] THEN <<i>> ELSE <<>>) \o TrueFrom(flags, i + 1)

\* The indices of the main lights of a slice, and those of its point lights.
MainIdx(lights) == TrueFrom([i \in 1..Len(lights) |-> lights[i].is_main], 1)

PointIdx(lights) == TrueFrom([i \in 1..Len(lights) |-> ~lights[i].is_main], 1)

ISqrt(n) == CHOOSE r \in 0..n : r * r <= n /\ n < (r + 1) * (r + 1)

(***************************************************************************)
(* Textures.  A texel is <<colour, alpha>>; one representative texel       *)
(* stands for the contents of a texture.                                   *)
(***************************************************************************)
NUM_TEXTURES == 2

\* The sizes a render target takes in the model.
Sizes == {<<1, 1>>, <<2, 3>>}

\* Texture2d::empty_with_format leaves the contents unspecified.
FreshTexels == {<<0, 0>>, <<5, 5>>}

\* clear_color(0.0, 0.0, 0.0, 1.0)
ClearColor == <<0, 1>>

create_texture(size, data) ==
    [size |-> size, format |-> "F32F32F32F32", data |-> data]

\* A one-channel texture; the channels it does not keep read as 1.
create_shadow_texture(size, data) ==
    [size |-> size, format |-> "F32", data |-> <<data[1], 1>>]

(***************************************************************************)
(* Lights, cameras and configuration.                                      *)
(***************************************************************************)
\* Config::default(): light_min_threshold = 0.02, kept as the fraction 2/100.
DefaultConfig == [light_min_threshold |-> [num |-> 2, den |-> 100]]

Configs == {DefaultConfig, [light_min_threshold |-> [num |-> 1, den |-> 2]]}

\* na::Matrix4::identity(); a matrix is modelled by a number, the identity by 1.
Identity == 1

Cameras ==
    {[view |-> 1, projection |-> 1, viewport_size |-> <<1, 1>>],
     [view |-> 2, projection |-> 3, viewport_size |-> <<1, 1>>],
     [view |-> 2, projection |-> 1, viewport_size |-> <<2, 3>>]}

\* The lights a caller passes; `radius` is whatever the caller left in it.
Lights ==
    {[is_main |-> TRUE, position |-> 0, color |-> <<1, 1, 1>>,
      attenuation |-> <<1, 0, 0>>, radius |-> 0],
     [is_main |-> FALSE, position |-> 1, color |-> <<1, 0, 0>>,
      attenuation |-> <<1, 0, 1>>, radius |-> 0],
     [is_main |-> FALSE, position |-> 2, color |-> <<0, 2, 1>>,
      attenuation |-> <<1, 2, 1>>, radius |-> 3]}

LightSlices == SeqsUpTo(Lights, MaxLights)

\* i_max = color.x.max(color.y).max(color.z)
IMax(light) == Max2(Max2(light.color[1], light.color[2]), light.color[3])

\* The radius light_pass computes for a point light.
Radius(config, light) ==
    LET t == config.light_min_threshold
        a == light.attenuation
        i_max == IMax(light)
        radicand == a[2] * a[2] - 4 * a[3] * (a[1] - (i_max * t.den) \div t.num)
    IN  (ISqrt(radicand) - a[2]) \div (2 * a[3])

\* Light { radius, ..light.clone() }.to_vertex()
to_vertex(light, radius) ==
    [light_position |-> light.position, light_attenuation |-> light.attenuation,
     light_color |-> light.color, light_is_main |-> light.is_main,
     light_radius |-> radius]

RECURSIVE LightInstancesFrom(_, _, _)
\* The loop of light_pass that fills self.light_instances, from light i on.
LightInstancesFrom(config, lights, i) ==
    IF i > Len(lights) THEN <<>>
    ELSE IF lights[i].is_main THEN LightInstancesFrom(config, lights, i + 1)
    ELSE <<to_vertex(lights[i], Radius(config, lights[i]))>>
             \o LightInstancesFrom(config, lights, i + 1)

LightInstances(config, lights) == LightInstancesFrom(config, lights, 1)

(***************************************************************************)
(* Drawing.                                                                *)
(***************************************************************************)
AdditiveOneOne == [source |-> "One", destination |-> "One"]

\* Faulty variant: the destination factor is Zero, so a draw replaces what is there.
DrawParamsReplacing ==
    [backface_culling |-> "CullClockwise",
     blend |-> [color |-> [source |-> "One", destination |-> "Zero"],
                alpha |-> [source |-> "One", destination |-> "Zero"]]]

\* draw_params of light_pass: the parameters of the main light draws.
DrawParams ==
    [backface_culling |-> "CullClockwise",
     blend |-> [color |-> AdditiveOneOne, alpha |-> AdditiveOneOne]]

\* The parameters of the point light draw: only the culling differs.
PointDrawParams ==
    [DrawParams EXCEPT !.backface_culling = "CullCounterClockwise"]

Factor(f) == IF f = "One" THEN 1 ELSE 0

\* BlendingFunction::Addition: source * factor + destination * factor.
Blend(params, src, dst) ==
    <<Factor(params.blend.color.source) * src[1]
        + Factor(params.blend.color.destination) * dst[1],
      Factor(params.blend.alpha.source) * src[2]
        + Factor(params.blend.alpha.destination) * dst[2]>>

\* The texture uniforms of light_pass.
TextureUniforms(d) ==
    [position_texture |-> d.scene_textures[1].data,
     normal_texture |-> d.scene_textures[2].data,
     shadow_texture |-> [i \in DOMAIN d.shadow_texture |-> d.shadow_texture[i].data]]

\* What the G-buffer contributes to a fragment.
Surface(textures) ==
    1 + textures.position_texture[1] + 2 * textures.normal_texture[1]
      + (IF textures.shadow_texture = <<>> THEN 0 ELSE 3 * textures.shadow_texture[1][1])

\* The fragment the main light program writes: a function of all its uniforms.
MainLightShade(textures, cam, light) ==
    <<IMax(light) * Surface(textures) + 10 * cam.view + 100 * cam.projection
        + 1000 * cam.viewport_size[1],
      1>>

\* The fragment the light object program writes for one instance of the sphere.
PointLightShade(textures, cam, instance) ==
    <<Max2(Max2(instance.light_color[1], instance.light_color[2]), instance.light_color[3])
        * Surface(textures) + instance.light_radius + 10 * cam.view
        + 100 * cam.projection + 1000 * cam.viewport_size[1],
      1>>

\* Faulty variant: the main light draw is given the caller's camera.
NoCameraForgotten(camera) == camera

\* The camera of a main light draw.
NoCamera(camera) ==
    [view |-> Identity, projection |-> Identity, viewport_size |-> camera.viewport_size]

RECURSIVE DrawInstances(_, _, _, _, _, _)
\* crate::Instancing's drawable: one instanced draw over the whole buffer.
DrawInstances(buffer, i, textures, cam, params, target) ==
    IF i > Len(buffer) THEN target
    ELSE DrawInstances(buffer, i + 1, textures, cam, params,
                       Blend(params, PointLightShade(textures, cam, buffer[i]), target))

(***************************************************************************)
(* The injected device failures.                                           *)
(***************************************************************************)
Fail(at, k) == [at |-> at, k |-> k]

NoFail == Fail("none", 0)

(***************************************************************************)
(* DeferredShading.                                                        *)
(***************************************************************************)
NoObject == [created |-> FALSE]

\* No Resources: create has not returned one.
NoResources == [created |-> FALSE]

\* What a texture of the given format keeps of a texel: F32 has one channel.
Store(format, texel) == IF format = "F32" THEN <<texel[1], 1>> ELSE texel

\* ScenePassComponent::output_textures
output_textures(d) ==
    <<[name |-> "f_world_pos", slot |-> "scene0", texture |-> d.scene_textures[1]],
      [name |-> "f_world_normal", slot |-> "scene1", texture |-> d.scene_textures[2]]>>
    \o (IF d.shadow_texture # <<>>
        THEN <<[name |-> "f_shadow", slot |-> "shadow", texture |-> d.shadow_texture[1]]>>
        ELSE <<>>)

\* Writing a texel through an attachment of a framebuffer.
WriteSlot(d, slot, texel) ==
    CASE slot = "scene0" ->
           [d EXCEPT !.scene_textures[1].data = Store(d.scene_textures[1].format, texel)]
      [] slot = "scene1" ->
           [d EXCEPT !.scene_textures[2].data = Store(d.scene_textures[2].format, texel)]
      [] slot = "shadow" ->
           [d EXCEPT !.shadow_texture[1].data = Store(d.shadow_texture[1].format, texel)]
      [] slot = "light" ->
           [d EXCEPT !.light_texture.data = Store(d.light_texture.format, texel)]

RECURSIVE WriteOutputs(_, _, _, _)
\* Writes texels[i] to the i-th attachment, for every attachment from i on.
WriteOutputs(d, outs, texels, i) ==
    IF i > Len(outs) THEN d
    ELSE WriteOutputs(WriteSlot(d, outs[i].slot, texels[i]), outs, texels, i + 1)

\* Faulty variant: the framebuffer is built over the scene textures alone.
ClearTargetsSceneOnly(d) == SubSeq(output_textures(d), 1, NUM_TEXTURES)

\* The attachments of the framebuffer clear_buffers builds.
ClearTargets(d) == output_textures(d)

\* RenderPassComponent::clear_buffers
clear_buffers(d, failAt) ==
    IF failAt.at = "framebuffer" THEN [ds |-> d, result |-> "Err"]
    ELSE [ds |-> WriteOutputs(d, ClearTargets(d),
                              [i \in 1..Len(ClearTargets(d)) |-> ClearColor], 1),
          result |-> "Ok"]

CreateFailures(have_shadows) ==
    {NoFail, Fail("scene_texture", 1), Fail("scene_texture", 2), Fail("light_texture", 0),
     Fail("main_program", 0), Fail("object_program", 0), Fail("screen_quad", 0),
     Fail("sphere", 0), Fail("instancing", 0)}
    \cup (IF have_shadows THEN {Fail("shadow_texture", 0)} ELSE {})

\* DeferredShading::create; `fresh` is what the device left in the new textures.
create(config, have_shadows, target_size, fresh, failAt) ==
    IF failAt # NoFail THEN [ds |-> NoObject, result |-> "Err"]
    ELSE [ds |->
            [created |-> TRUE,
             config |-> config,
             scene_textures |->
                 [i \in 1..NUM_TEXTURES |-> create_texture(target_size, fresh)],
             shadow_texture |->
                 IF have_shadows THEN <<create_shadow_texture(target_size, fresh)>>
                 ELSE <<>>,
             light_texture |-> create_texture(target_size, fresh),
             main_light_screen_quad_program |->
                 [core |-> "main_light_screen_quad", have_shadows |-> have_shadows,
                  mode |-> "Uniforms"],
             light_object_program |-> [core |-> "light_object", mode |-> "Vertex"],
             screen_quad |-> "ScreenQuad",
             sphere |-> [mesh |-> "Sphere"],
             light_instances |-> <<>>,
             light_instancing |-> <<>>],
          result |-> "Ok"]

ResizeFailures(d) ==
    {NoFail, Fail("scene_texture", 1), Fail("scene_texture", 2), Fail("light_texture", 0)}
    \cup (IF d.shadow_texture # <<>> THEN {Fail("shadow_texture", 0)} ELSE {})

\* The first statement of on_target_resize: both scene textures, then the assignment.
ResizeSceneTextures(d, target_size, fresh, failAt) ==
    IF failAt.at = "scene_texture" THEN [ds |-> d, result |-> "Err"]
    ELSE [ds |-> [d EXCEPT !.scene_textures =
                     [i \in 1..NUM_TEXTURES |-> create_texture(target_size, fresh)]],
          result |-> "Ok"]

\* Faulty variant: the shadow texture is created whether or not the object has one.
ResizeShadowTextureAlways(d, target_size, fresh, failAt) ==
    IF failAt.at = "shadow_texture" THEN [ds |-> d, result |-> "Err"]
    ELSE [ds |-> [d EXCEPT !.shadow_texture =
                     <<create_shadow_texture(target_size, fresh)>>],
          result |-> "Ok"]

\* The second statement: the shadow texture, when there is one.
ResizeShadowTexture(d, target_size, fresh, failAt) ==
    IF d.shadow_texture = <<>> THEN [ds |-> d, result |-> "Ok"]
    ELSE IF failAt.at = "shadow_texture" THEN [ds |-> d, result |-> "Err"]
    ELSE [ds |-> [d EXCEPT !.shadow_texture[1] =
                     create_shadow_texture(target_size, fresh)],
          result |-> "Ok"]

\* Faulty variant: the light texture is not recreated.
ResizeLightTextureKept(d, target_size, fresh, failAt) ==
    IF failAt.at = "light_texture" THEN [ds |-> d, result |-> "Err"]
    ELSE [ds |-> d, result |-> "Ok"]

\* The third statement: the light texture.
ResizeLightTexture(d, target_size, fresh, failAt) ==
    IF failAt.at = "light_texture" THEN [ds |-> d, result |-> "Err"]
    ELSE [ds |-> [d EXCEPT !.light_texture = create_texture(target_size, fresh)],
          result |-> "Ok"]

\* `?` after the first statement: an error returns, a success goes on.
ThenShadowTexture(r, target_size, fresh, failAt) ==
    IF r.result = "Err" THEN r
    ELSE ResizeShadowTexture(r.ds, target_size, fresh, failAt)

\* `?` after the second statement.
ThenLightTexture(r, target_size, fresh, failAt) ==
    IF r.result = "Err" THEN r
    ELSE ResizeLightTexture(r.ds, target_size, fresh, failAt)

\* DeferredShading::on_target_resize
on_target_resize(d, target_size, fresh, failAt) ==
    ThenLightTexture(
        ThenShadowTexture(ResizeSceneTextures(d, target_size, fresh, failAt),
                          target_size, fresh, failAt),
        target_size, fresh, failAt)

(***************************************************************************)
(* light_pass, statement by statement.  A run carries the object, the      *)
(* steps issued so far and whether a `?` has returned an error.            *)
(***************************************************************************)
StartRun(d) == [ds |-> d, steps |-> <<>>, ok |-> TRUE, main_out |-> <<>>]

Step(run, entry) == [run EXCEPT !.steps = Append(run.steps, entry)]

Abort(run) == [run EXCEPT !.ok = FALSE]

\* SimpleFrameBuffer::new(facade, &self.light_texture)?
NewLightBuffer(run, failAt) ==
    IF failAt.at = "framebuffer" THEN Abort(Step(run, [step |-> "framebuffer"]))
    ELSE Step(run, [step |-> "framebuffer"])

\* light_buffer.clear_color(0.0, 0.0, 0.0, 1.0)
ClearLightBuffer(run) ==
    IF ~run.ok THEN run
    ELSE Step([run EXCEPT !.ds = WriteSlot(run.ds, "light", ClearColor)],
              [step |-> "clear"])

\* Faulty variant: the records are pushed without the clear() before them.
FillLightInstancesKeeping(run, lights) ==
    IF ~run.ok THEN run
    ELSE [run EXCEPT !.ds.light_instances = @ \o LightInstances(run.ds.config, lights)]

\* self.light_instances.clear() and the loop that pushes the point lights
FillLightInstances(run, lights) ==
    IF ~run.ok THEN run
    ELSE [run EXCEPT !.ds.light_instances = LightInstances(run.ds.config, lights)]

\* crate::Instancing::update: the buffer holds the given records.
InstancingUpdate(buffer, data) == data

\* Faulty variant: the result of update is dropped instead of returned with `?`.
UploadLightInstancesUnchecked(run, failAt) ==
    IF ~run.ok THEN run
    ELSE IF failAt.at = "upload" THEN Step(run, [step |-> "upload"])
    ELSE Step([run EXCEPT !.ds.light_instancing =
                   InstancingUpdate(run.ds.light_instancing, run.ds.light_instances)],
              [step |-> "upload"])

\* self.light_instancing.update(facade, &self.light_instances)?
UploadLightInstances(run, failAt) ==
    IF ~run.ok THEN run
    ELSE IF failAt.at = "upload" THEN Abort(Step(run, [step |-> "upload"]))
    ELSE Step([run EXCEPT !.ds.light_instancing =
                   InstancingUpdate(run.ds.light_instancing, run.ds.light_instances)],
              [step |-> "upload"])

RECURSIVE DrawMainLightsFrom(_, _, _, _, _, _)
\* The loop that draws the main lights, from light i on; k main draws were issued.
DrawMainLightsFrom(run, lights, camera, failAt, i, k) ==
    IF ~run.ok \/ i > Len(lights) THEN run
    ELSE IF ~lights[i].is_main
    THEN DrawMainLightsFrom(run, lights, camera, failAt, i + 1, k)
    ELSE LET no_camera == NoCamera(camera)
             entry == [step |-> "main_draw", light |-> i, camera |-> no_camera]
             src == MainLightShade(TextureUniforms(run.ds), no_camera, lights[i])
             drawn == WriteSlot(run.ds, "light",
                                Blend(DrawParams, src, run.ds.light_texture.data))
         IN  IF failAt = Fail("main_draw", k + 1) THEN Abort(Step(run, entry))
             ELSE DrawMainLightsFrom(Step([run EXCEPT !.ds = drawn], entry),
                                     lights, camera, failAt, i + 1, k + 1)

\* The light buffer as the main light draws leave it.
MainOut(run) == [run EXCEPT !.main_out = run.ds.light_texture.data]

DrawMainLights(run, lights, camera, failAt) ==
    IF ~run.ok THEN run
    ELSE MainOut(DrawMainLightsFrom(run, lights, camera, failAt, 1, 0))

\* self.light_instancing.as_drawable(&self.sphere).draw(...)?
DrawPointLights(run, camera, failAt) ==
    LET entry == [step |-> "point_draw", camera |-> camera,
                  instances |-> run.ds.light_instancing]
        drawn == WriteSlot(run.ds, "light",
                           DrawInstances(run.ds.light_instancing, 1,
                                         TextureUniforms(run.ds), camera,
                                         PointDrawParams, run.ds.light_texture.data))
    IN  IF ~run.ok THEN run
        ELSE IF failAt.at = "point_draw" THEN Abort(Step(run, entry))
        ELSE Step([run EXCEPT !.ds = drawn], entry)

NumMain(lights) == Len(MainIdx(lights))

LightPassFailures(lights) ==
    {NoFail, Fail("framebuffer", 0), Fail("upload", 0), Fail("point_draw", 0)}
    \cup {Fail("main_draw", k) : k \in 1..NumMain(lights)}

\* DeferredShading::light_pass
light_pass(d, camera, lights, failAt) ==
    DrawPointLights(
        DrawMainLights(
            UploadLightInstances(
                FillLightInstances(
                    ClearLightBuffer(NewLightBuffer(StartRun(d), failAt)),
                    lights),
                failAt),
            lights, camera, failAt),
        camera, failAt)

Result(ok) == IF ok THEN "Ok" ELSE "Err"

(***************************************************************************)
(* basic_obj: the primitive kinds, their meshes, the render list and the   *)
(* instancing buffers.                                                     *)
(***************************************************************************)
\* enum BasicObj
BasicObj ==
    {"Triangle", "Quad", "Cube", "Sphere", "LineX", "LineY", "LineZ",
     "TessellatedCube", "TessellatedCylinder"}

NUM_TYPES == 9

\* Option: None is <<>>, Some(x) is <<x>>.
None == <<>>

Some(x) == <<x>>

\* #[derive(FromPrimitive)]: the variant whose discriminant is i, if any.
from_usize(i) ==
    CASE i = 0 -> Some("Triangle")
      [] i = 1 -> Some("Quad")
      [] i = 2 -> Some("Cube")
      [] i = 3 -> Some("Sphere")
      [] i = 4 -> Some("LineX")
      [] i = 5 -> Some("LineY")
      [] i = 6 -> Some("LineZ")
      [] i = 7 -> Some("TessellatedCube")
      [] i = 8 -> Some("TessellatedCylinder")
      [] OTHER -> None

\* Faulty variant: the discriminants start at 1.
to_usize_from_one(object) ==
    CASE object = "Triangle" -> Some(1)
      [] object = "Quad" -> Some(2)
      [] object = "Cube" -> Some(3)
      [] object = "Sphere" -> Some(4)
      [] object = "LineX" -> Some(5)
      [] object = "LineY" -> Some(6)
      [] object = "LineZ" -> Some(7)
      [] object = "TessellatedCube" -> Some(8)
      [] object = "TessellatedCylinder" -> Some(9)

\* #[derive(ToPrimitive)]: the discriminant of the variant.
to_usize(object) ==
    CASE object = "Triangle" -> Some(0)
      [] object = "Quad" -> Some(1)
      [] object = "Cube" -> Some(2)
      [] object = "Sphere" -> Some(3)
      [] object = "LineX" -> Some(4)
      [] object = "LineY" -> Some(5)
      [] object = "LineZ" -> Some(6)
      [] object = "TessellatedCube" -> Some(7)
      [] object = "TessellatedCylinder" -> Some(8)

\* BasicObj::create_mesh: the mesh of a kind.
create_mesh(object) == [mesh |-> object]

RECURSIVE ResourcesCreateFrom(_, _, _)
\* The loop of Resources::create from index i on; `meshes` is the local vector.
ResourcesCreateFrom(meshes, i, failAt) ==
    IF i >= NUM_TYPES THEN [result |-> "Ok", resources |-> [created |-> TRUE, meshes |-> meshes]]
    ELSE IF from_usize(i) = None THEN [result |-> "Panic", resources |-> NoResources]
    ELSE IF failAt = Fail("create_mesh", i) THEN [result |-> "Err", resources |-> NoResources]
    ELSE ResourcesCreateFrom(Append(meshes, create_mesh(from_usize(i)[1])), i + 1, failAt)

\* Resources::create
ResourcesCreate(failAt) == ResourcesCreateFrom(<<>>, 0, failAt)

\* Indexing a Vec with a usize: element i, or a panic when i is out of bounds.
VecIndex(vec, i) ==
    IF i + 1 \in DOMAIN vec THEN [result |-> "Ok", value |-> vec[i + 1]]
    ELSE [result |-> "Panic"]

\* Resources::mesh
ResourcesMesh(r, object) == VecIndex(r.meshes, to_usize(object)[1])

\* RenderList::default
RenderListDefault == [i \in 1..NUM_TYPES |-> <<>>]

\* RenderList::clear
RenderListClear(list) == [i \in DOMAIN list |-> <<>>]

\* IndexMut<BasicObj> for RenderList, followed by a push of one instance.
RenderListAdd(list, object, instance) ==
    LET i == to_usize(object)[1]
    IN  IF i + 1 \in DOMAIN list
        THEN [result |-> "Ok", list |-> [list EXCEPT ![i + 1] = Append(@, instance)]]
        ELSE [result |-> "Panic", list |-> list]

\* Instancing::create: one empty buffer per kind.
InstancingCreate(failAt) ==
    IF failAt = NoFail
    THEN [result |-> "Ok", instancing |-> [i \in 1..NUM_TYPES |-> <<>>]]
    ELSE [result |-> "Err", instancing |-> <<>>]

RECURSIVE InstancingUpdateFrom(_, _, _, _)
\* The loop of basic_obj::Instancing::update from index i on.
InstancingUpdateFrom(buffers, list, i, failAt) ==
    IF i >= NUM_TYPES THEN [result |-> "Ok", instancing |-> buffers]
    ELSE IF failAt = Fail("update", i) THEN [result |-> "Err", instancing |-> buffers]
    ELSE InstancingUpdateFrom(
             [buffers EXCEPT ![i + 1] = InstancingUpdate(@, list[i + 1])],
             list, i + 1, failAt)

\* basic_obj::Instancing::update
ObjInstancingUpdate(buffers, list, failAt) == InstancingUpdateFrom(buffers, list, 0, failAt)

RECURSIVE InstancingDrawFrom(_, _, _, _, _)
\* The loop of InstancingDrawableImpl::draw from index i on; `drawn` is the
\* draws issued so far, each with the mesh and the instances it covers.
InstancingDrawFrom(buffers, meshes, i, failAt, drawn) ==
    IF i >= NUM_TYPES THEN [result |-> "Ok", drawn |-> drawn]
    ELSE IF failAt = Fail("draw", i) THEN [result |-> "Err", drawn |-> drawn]
    ELSE InstancingDrawFrom(buffers, meshes, i + 1, failAt,
             Append(drawn, [mesh |-> meshes[i + 1], instances |-> buffers[i + 1]]))

\* InstancingDrawableImpl::draw
InstancingDraw(buffers, r, failAt) == InstancingDrawFrom(buffers, r.meshes, 0, failAt, <<>>)

(***************************************************************************)
(* The calls on the DeferredShading object.  A call runs to completion;    *)
(* `ret` then holds its arguments, its result and the object as it was     *)
(* before the call, until the caller takes the result (Return).            *)
(***************************************************************************)
Idle == [op |-> "none", result |-> "Ok"]

CreateOf(configs, sizes, freshs) ==
    /\ ret = Idle
    /\ ~ds.created
    /\ \E config \in configs, have_shadows \in BOOLEAN, target_size \in sizes,
          fresh \in freshs :
         \E failAt \in CreateFailures(have_shadows) :
           \E r \in {create(config, have_shadows, target_size, fresh, failAt)} :
               /\ ds' = r.ds
               /\ ret' = [op |-> "create", result |-> r.result, config |-> config,
                          have_shadows |-> have_shadows, target_size |-> target_size,
                          failAt |-> failAt, before |-> ds]
    /\ UNCHANGED objVars

OnTargetResizeOf(sizes, freshs) ==
    /\ ret = Idle
    /\ ds.created
    /\ \E target_size \in sizes, fresh \in freshs, failAt \in ResizeFailures(ds) :
         \E r \in {on_target_resize(ds, target_size, fresh, failAt)} :
             /\ ds' = r.ds
             /\ ret' = [op |-> "on_target_resize", result |-> r.result,
                        target_size |-> target_size, failAt |-> failAt, before |-> ds]
    /\ UNCHANGED objVars

ClearBuffersCall ==
    /\ ret = Idle
    /\ ds.created
    /\ \E failAt \in {NoFail, Fail("framebuffer", 0)} :
         \E r \in {clear_buffers(ds, failAt)} :
             /\ ds' = r.ds
             /\ ret' = [op |-> "clear_buffers", result |-> r.result, failAt |-> failAt,
                        before |-> ds]
    /\ UNCHANGED objVars

\* The scene pass of the pipeline driver: it draws into output_textures().
ScenePassOf(texels) ==
    /\ ret = Idle
    /\ ds.created
    /\ \E texel \in texels :
         /\ ds' = WriteOutputs(ds, output_textures(ds),
                               [i \in 1..Len(output_textures(ds)) |-> texel], 1)
         /\ ret' = [op |-> "scene_pass", result |-> "Ok", before |-> ds]
    /\ UNCHANGED objVars

LightPassOf(cameras, slices) ==
    /\ ret = Idle
    /\ ds.created
    /\ \E camera \in cameras, lights \in slices :
         \E failAt \in LightPassFailures(lights) :
           \E r \in {light_pass(ds, camera, lights, failAt)} :
               /\ ds' = r.ds
               /\ ret' = [op |-> "light_pass", result |-> Result(r.ok),
                          camera |-> camera, lights |-> lights, failAt |-> failAt,
                          steps |-> r.steps, main_out |-> r.main_out, before |-> ds]
    /\ UNCHANGED objVars

\* The caller takes the result of the call.
ReturnCall ==
    /\ ret # Idle
    /\ ret' = Idle
    /\ UNCHANGED <<ds, objVars>>

Init ==
    /\ ds = NoObject
    /\ ret = Idle
    /\ resources = NoResources
    /\ render_list = RenderListDefault
    /\ instancing = <<>>
    /\ oret = Idle
    /\ phase = "clear"

(***************************************************************************)
(* Spec: the calls in any order.  Targets of every size, and light passes  *)
(* over at most one light.                                                 *)
(***************************************************************************)
Create == CreateOf(Configs, Sizes, FreshTexels) /\ UNCHANGED phase

OnTargetResize == OnTargetResizeOf(Sizes, FreshTexels) /\ UNCHANGED phase

ClearBuffers == ClearBuffersCall /\ UNCHANGED phase

ScenePass == ScenePassOf({<<1, 1>>}) /\ UNCHANGED phase

LightPass ==
    /\ LightPassOf({CHOOSE c \in Cameras : c.view # Identity}, SeqsUpTo(Lights, 1))
    /\ UNCHANGED phase

Return == ReturnCall /\ UNCHANGED phase

Next ==
    \/ Create
    \/ OnTargetResize
    \/ ClearBuffers
    \/ ScenePass
    \/ LightPass
    \/ Return

Spec == Init /\ [][Next]_vars

(***************************************************************************)
(* SpecFrame: the pipeline driver.  It creates the object and then runs    *)
(* frames: clear, scene pass, light pass, in that order; a failed call     *)
(* ends the frame.  The target is resized between frames.  Light passes    *)
(* over every slice of up to MaxLights lights, from every camera.          *)
(***************************************************************************)
FrameSize == <<2, 3>>

FrameCreate == CreateOf({DefaultConfig}, {FrameSize}, {<<5, 5>>}) /\ UNCHANGED phase

FrameResize ==
    /\ phase = "clear"
    /\ OnTargetResizeOf({FrameSize}, {<<5, 5>>})
    /\ UNCHANGED phase

FrameClear ==
    /\ phase = "clear"
    /\ ClearBuffersCall
    /\ phase' = IF ret'.result = "Ok" THEN "scene" ELSE "clear"

FrameScenePass ==
    /\ phase = "scene"
    /\ ScenePassOf({<<1, 1>>})
    /\ phase' = "light"

FrameLightPass ==
    /\ phase = "light"
    /\ LightPassOf({c \in Cameras : c.view # Identity}, LightSlices)
    /\ phase' = "clear"

FrameReturn == ReturnCall /\ UNCHANGED phase

NextFrame ==
    \/ FrameCreate
    \/ FrameResize
    \/ FrameClear
    \/ FrameScenePass
    \/ FrameLightPass
    \/ FrameReturn

SpecFrame == Init /\ [][NextFrame]_vars

(***************************************************************************)
(* SpecObj: the calls on the registry, the render list and the buffers.    *)
(***************************************************************************)
\* The kinds the scene traversal of the model records instances for.
TraversalKinds == {"Triangle", "Sphere", "TessellatedCylinder"}

\* The instance records of the model.
Instances == {"a"}

RECURSIVE SumLen(_, _)
SumLen(list, i) == IF i > Len(list) THEN 0 ELSE Len(list[i]) + SumLen(list, i + 1)

LoopFailures(at) == {NoFail} \cup {Fail(at, i) : i \in 0..(NUM_TYPES - 1)}

ObjResourcesCreate ==
    /\ oret = Idle
    /\ ~resources.created
    /\ \E failAt \in LoopFailures("create_mesh") :
         \E r \in {ResourcesCreate(failAt)} :
           /\ resources' = r.resources
           /\ oret' = [op |-> "Resources::create", result |-> r.result, failAt |-> failAt]
    /\ UNCHANGED <<render_list, instancing, dsVars, phase>>

ObjMesh ==
    /\ oret = Idle
    /\ resources.created
    /\ \E object \in BasicObj :
         oret' = [op |-> "Resources::mesh", object |-> object,
                  found |-> ResourcesMesh(resources, object),
                  result |-> ResourcesMesh(resources, object).result]
    /\ UNCHANGED <<resources, render_list, instancing, dsVars, phase>>

ObjFromUsize ==
    /\ oret = Idle
    /\ \E i \in 0..(NUM_TYPES + 1) :
         oret' = [op |-> "from_usize", i |-> i, object |-> from_usize(i),
                  back |-> IF from_usize(i) = None THEN None
                           ELSE to_usize(from_usize(i)[1]),
                  result |-> "Ok"]
    /\ UNCHANGED <<resources, render_list, instancing, dsVars, phase>>

ObjAdd ==
    /\ oret = Idle
    /\ SumLen(render_list, 1) < MaxRecords
    /\ \E object \in TraversalKinds, instance \in Instances :
         \E r \in {RenderListAdd(render_list, object, instance)} :
           /\ render_list' = r.list
           /\ oret' = [op |-> "RenderList::index_mut", object |-> object,
                       result |-> r.result]
    /\ UNCHANGED <<resources, instancing, dsVars, phase>>

ObjClear ==
    /\ oret = Idle
    /\ render_list' = RenderListClear(render_list)
    /\ oret' = [op |-> "RenderList::clear", result |-> "Ok"]
    /\ UNCHANGED <<resources, instancing, dsVars, phase>>

ObjInstancingCreate ==
    /\ oret = Idle
    /\ instancing = <<>>
    /\ \E failAt \in LoopFailures("create") :
         \E r \in {InstancingCreate(failAt)} :
           /\ instancing' = r.instancing
           /\ oret' = [op |-> "Instancing::create", result |-> r.result]
    /\ UNCHANGED <<resources, render_list, dsVars, phase>>

ObjUpdate ==
    /\ oret = Idle
    /\ instancing # <<>>
    /\ \E failAt \in LoopFailures("update") :
         \E r \in {ObjInstancingUpdate(instancing, render_list, failAt)} :
           /\ instancing' = r.instancing
           /\ oret' = [op |-> "Instancing::update", result |-> r.result,
                       failAt |-> failAt, before |-> instancing]
    /\ UNCHANGED <<resources, render_list, dsVars, phase>>

ObjDraw ==
    /\ oret = Idle
    /\ instancing # <<>>
    /\ resources.created
    /\ \E failAt \in LoopFailures("draw") :
         \E r \in {InstancingDraw(instancing, resources, failAt)} :
           oret' = [op |-> "Instancing::draw", result |-> r.result, drawn |-> r.drawn]
    /\ UNCHANGED <<resources, render_list, instancing, dsVars, phase>>

ObjReturn ==
    /\ oret # Idle
    /\ oret' = Idle
    /\ UNCHANGED <<resources, render_list, instancing, dsVars, phase>>

NextObj ==
    \/ ObjResourcesCreate
    \/ ObjMesh
    \/ ObjFromUsize
    \/ ObjAdd
    \/ ObjClear
    \/ ObjInstancingCreate
    \/ ObjUpdate
    \/ ObjDraw
    \/ ObjReturn

SpecObj == Init /\ [][NextObj]_vars

(***************************************************************************)
(* Properties of the DeferredShading textures (checked under Spec).        *)
(***************************************************************************)
\* The resolution-dependent textures of the object, in a fixed order.
Textures(d) == <<d.scene_textures[1], d.scene_textures[2]>> \o d.shadow_texture
                   \o <<d.light_texture>>

\* What a resize must leave alone.
Fixtures(d) ==
    [config |-> d.config,
     main_light_screen_quad_program |-> d.main_light_screen_quad_program,
     light_object_program |-> d.light_object_program,
     screen_quad |-> d.screen_quad,
     sphere |-> d.sphere,
     light_instances |-> d.light_instances,
     light_instancing |-> d.light_instancing,
     has_shadow_texture |-> d.shadow_texture # <<>>]

\* C1: a failing on_target_resize returns the error and leaves every texture the
\* one the object held before the call, and a failing create returns no object.
C1_FailedCreationLeavesNothingPartial ==
    /\ (ret.op = "on_target_resize" /\ ret.result = "Err")
           => Textures(ds) = Textures(ret.before)
    /\ (ret.op = "create" /\ ret.result = "Err") => ~ds.created

\* C2 as stated: after a successful clear_buffers both G-buffer textures, the
\* shadow texture if present and the light-accumulation texture hold zero.
C2_ClearBuffersZeroesEveryTexture ==
    (ret.op = "clear_buffers" /\ ret.result = "Ok")
        => \A i \in DOMAIN Textures(ds) : Textures(ds)[i].data[1] = 0

\* C2 as amended: a successful clear_buffers leaves the clear colour (colour 0,
\* alpha 1) in both G-buffer textures and in the shadow texture if present, and
\* leaves the light-accumulation texture as it was; a failed one changes nothing;
\* the light-accumulation texture is cleared by light_pass, once its framebuffer
\* exists and before any draw.
C2_ClearBuffersClearsSceneOutputs ==
    /\ (ret.op = "clear_buffers" /\ ret.result = "Ok")
           => /\ \A i \in 1..NUM_TEXTURES : ds.scene_textures[i].data = ClearColor
              /\ \A i \in DOMAIN ds.shadow_texture : ds.shadow_texture[i].data = ClearColor
              /\ ds.light_texture = ret.before.light_texture
              /\ [ds EXCEPT !.scene_textures = ret.before.scene_textures,
                            !.shadow_texture = ret.before.shadow_texture] = ret.before
    /\ (ret.op = "clear_buffers" /\ ret.result = "Err") => ds = ret.before
    /\ (ret.op = "light_pass" /\ ret.failAt = Fail("upload", 0))
           => ds.light_texture.data = ClearColor
    /\ (ret.op = "light_pass" /\ ret.failAt = Fail("framebuffer", 0))
           => ds.light_texture = ret.before.light_texture

\* C2 witness: a clear of three dirty scene outputs that leaves a dirty light texture.
C2_Witness ==
    /\ ret.op = "clear_buffers" /\ ret.result = "Ok"
    /\ ret.before.shadow_texture # <<>>
    /\ \A i \in 1..3 : Textures(ret.before)[i].data[1] # 0
    /\ ds.light_texture.data[1] # 0

\* C3: after a successful on_target_resize every resolution-dependent texture
\* has exactly the new size, a light pass on the resized object succeeds when
\* the device accepts its calls, and nothing but the textures has changed.
C3_ResizeReplacesOnlyTextures ==
    (ret.op = "on_target_resize" /\ ret.result = "Ok")
        => /\ \A i \in DOMAIN Textures(ds) : Textures(ds)[i].size = ret.target_size
           /\ Len(Textures(ds)) = Len(Textures(ret.before))
           /\ Fixtures(ds) = Fixtures(ret.before)
           /\ \A camera \in Cameras, lights \in SeqsUpTo(Lights, 1) :
                  light_pass(ds, camera, lights, NoFail).ok

\* C3 witness: a second resize, to another size, of an object with a shadow
\* texture and a filled light instancing buffer.
C3_Witness ==
    /\ ret.op = "on_target_resize" /\ ret.result = "Ok"
    /\ ret.before.light_texture.size # ret.target_size
    /\ ret.before.light_texture.size # ret.before.scene_textures[1].size
    /\ ds.shadow_texture # <<>>
    /\ ds.light_instancing # <<>>

\* C7: the object exposes f_world_pos and f_world_normal, followed by f_shadow
\* exactly when it was created with have_shadows, in every state.
OutputNames(d) == [i \in 1..Len(output_textures(d)) |-> output_textures(d)[i].name]

C7_OutputTextureCountFixed ==
    /\ ds.created
           => OutputNames(ds) =
                  IF ds.main_light_screen_quad_program.have_shadows
                  THEN <<"f_world_pos", "f_world_normal", "f_shadow">>
                  ELSE <<"f_world_pos", "f_world_normal">>
    /\ (ret.op = "create" /\ ret.result = "Ok")
           => /\ Len(output_textures(ds)) = IF ret.have_shadows THEN 3 ELSE 2
              /\ ds.main_light_screen_quad_program.have_shadows = ret.have_shadows
    /\ (ret.op \notin {"none", "create"})
           => OutputNames(ds) = OutputNames(ret.before)

\* C7 witness: an object without shadows after a successful resize.
C7_Witness ==
    /\ ret.op = "on_target_resize" /\ ret.result = "Ok"
    /\ ~ds.main_light_screen_quad_program.have_shadows
    /\ Len(output_textures(ds)) = 2

(***************************************************************************)
(* Properties of light_pass (checked under SpecFrame).                     *)
(***************************************************************************)
\* The instance records a slice of lights calls for: one per point light, in
\* input order, each with the radius its attenuation and the threshold give.
PointRecords(config, lights) ==
    LET idx == PointIdx(lights)
    IN  [j \in 1..Len(idx) |->
            [light_position |-> lights[idx[j]].position,
             light_attenuation |-> lights[idx[j]].attenuation,
             light_color |-> lights[idx[j]].color,
             light_is_main |-> FALSE,
             light_radius |-> Radius(config, lights[idx[j]])]]

\* The position of the first step of the given name, or 0.
StepAt(steps, name) ==
    IF \E i \in 1..Len(steps) : steps[i].step = name
    THEN CHOOSE i \in 1..Len(steps) :
             steps[i].step = name /\ \A j \in 1..(i - 1) : steps[j].step # name
    ELSE 0

Draws(steps) == {i \in 1..Len(steps) : steps[i].step \in {"main_draw", "point_draw"}}

\* The upload of the call went through.
Uploaded == ret.failAt.at \notin {"framebuffer", "upload"}

\* C4: once light_pass has uploaded, the light instancing buffer holds exactly
\* one record per point light of this call, in input order and with the radius
\* computed in this call, whatever it held before; the upload comes before
\* every draw, and the point light draw covers exactly those records.
C4_InstanceBufferMirrorsPointLights ==
    ret.op = "light_pass"
        => /\ Uploaded
                  => /\ ds.light_instancing = PointRecords(ds.config, ret.lights)
                     /\ Len(ds.light_instancing) = Len(PointIdx(ret.lights))
           /\ ret.failAt.at # "framebuffer"
                  => ds.light_instances = PointRecords(ds.config, ret.lights)
           /\ \A i \in Draws(ret.steps) :
                  /\ 0 < StepAt(ret.steps, "upload") /\ StepAt(ret.steps, "upload") < i
                  /\ ret.steps[i].step = "point_draw"
                         => ret.steps[i].instances = PointRecords(ds.config, ret.lights)

\* C4 witness: a pass over a point light and a main light on a buffer that
\* held two records of another point light.
C4_Witness ==
    /\ ret.op = "light_pass" /\ ret.result = "Ok"
    /\ Len(ret.lights) = 2 /\ ret.lights[1].is_main /\ ~ret.lights[2].is_main
    /\ Len(ret.before.light_instancing) = 2
    /\ \A i \in 1..2 :
           ret.before.light_instancing[i].light_position # ret.lights[2].position
    /\ Len(ds.light_instancing) = 1

Plus(a, b) == <<a[1] + b[1], a[2] + b[2]>>

Minus(a, b) == <<a[1] - b[1], a[2] - b[2]>>

RECURSIVE SumTexels(_, _)
SumTexels(texels, i) ==
    IF i > Len(texels) THEN <<0, 0>> ELSE Plus(texels[i], SumTexels(texels, i + 1))

Reverse(seq) == [i \in 1..Len(seq) |-> seq[Len(seq) + 1 - i]]

\* What one light adds to a cleared light texture when it is rendered alone,
\* over the same G-buffer and from the same camera.
Alone(d, camera, light) ==
    Minus(light_pass([d EXCEPT !.light_texture.data = ClearColor],
                     camera, <<light>>, NoFail).ds.light_texture.data,
          ClearColor)

\* C5: after a successful light_pass the light texture holds the clear colour
\* plus the sum of what each light of the call adds when rendered alone,
\* whatever the texture held before and in whatever order the lights come.
C5_AccumulationIsSumOfLights ==
    (ret.op = "light_pass" /\ ret.result = "Ok")
        => /\ ds.light_texture.data =
                  Plus(ClearColor,
                       SumTexels([i \in 1..Len(ret.lights) |->
                                     Alone(ret.before, ret.camera, ret.lights[i])], 1))
           /\ ds.light_texture.data =
                  light_pass(ret.before, ret.camera, Reverse(ret.lights), NoFail)
                      .ds.light_texture.data

\* C5 witness: two different lights summed over a texture an earlier pass left
\* with another value.
C5_Witness ==
    /\ ret.op = "light_pass" /\ ret.result = "Ok"
    /\ Len(ret.lights) = 2 /\ ret.lights[1] # ret.lights[2]
    /\ ret.before.light_texture.data \notin {ClearColor, <<5, 5>>}
    /\ ret.before.light_texture.data # ds.light_texture.data

\* The steps a light pass over `lights` issues when nothing fails.
AllSteps(lights) ==
    LET mains == MainIdx(lights)
    IN  <<<<"framebuffer", 0>>, <<"clear", 0>>, <<"upload", 0>>>>
        \o [j \in 1..Len(mains) |-> <<"main_draw", mains[j]>>]
        \o <<<<"point_draw", 0>>>>

StepKeys(steps) ==
    [i \in 1..Len(steps) |->
        <<steps[i].step, IF steps[i].step = "main_draw" THEN steps[i].light ELSE 0>>]

\* The step at which the device failure `failAt` strikes.
FailedStep(lights, failAt) ==
    IF failAt.at = "main_draw"
    THEN <<"main_draw", MainIdx(lights)[failAt.k]>>
    ELSE <<failAt.at, 0>>

\* C6: light_pass issues its steps in the fixed order, each once; it returns an
\* error exactly when a step fails, and then the failed step is the last one
\* issued: a failed framebuffer creation leaves the object as it was, a failed
\* upload leaves the buffer as it was and the light texture cleared, and after
\* any failure the point light draw is not issued.
C6_FailureAbortsLightPass ==
    ret.op = "light_pass"
        => LET keys == StepKeys(ret.steps)
               all == AllSteps(ret.lights)
           IN  /\ Len(keys) <= Len(all) /\ keys = SubSeq(all, 1, Len(keys))
               /\ (ret.result = "Err") = (ret.failAt # NoFail)
               /\ ret.result = "Ok" => keys = all
               /\ ret.result = "Err"
                      => /\ keys[Len(keys)] = FailedStep(ret.lights, ret.failAt)
                         /\ \A i \in 1..(Len(keys) - 1) :
                                keys[i] # FailedStep(ret.lights, ret.failAt)
                         /\ ret.failAt.at # "point_draw"
                                => \A i \in 1..Len(keys) : keys[i][1] # "point_draw"
               /\ ret.failAt.at = "framebuffer" => ds = ret.before
               /\ ret.failAt.at = "upload"
                      => /\ ds.light_instancing = ret.before.light_instancing
                         /\ ds.light_texture.data = ClearColor
               /\ ret.failAt.at = "point_draw" => ds.light_texture.data = ret.main_out

\* C6 witness: the draw of the first of two main lights fails.
C6_Witness ==
    /\ ret.op = "light_pass" /\ ret.result = "Err"
    /\ ret.failAt = Fail("main_draw", 1)
    /\ Len(MainIdx(ret.lights)) = 2
    /\ Len(ret.steps) = 4

\* The lights the main draws of a pass were issued for, in the order of the draws.
MainDrawn(steps) ==
    LET at == TrueFrom([i \in 1..Len(steps) |-> steps[i].step = "main_draw"], 1)
    IN  [j \in 1..Len(at) |-> steps[at[j]].light]

\* C8: every main light is drawn once, in input order, with the identity view,
\* the identity projection and the caller's viewport size, so what the main
\* light draws leave in the light texture is the same from every camera with
\* that viewport size.
C8_MainLightIgnoresViewProjection ==
    (ret.op = "light_pass" /\ Uploaded)
        => /\ \A i \in 1..Len(ret.steps) :
                  ret.steps[i].step = "main_draw"
                      => ret.steps[i].camera =
                             [view |-> Identity, projection |-> Identity,
                              viewport_size |-> ret.camera.viewport_size]
           /\ ret.failAt.at # "main_draw"
                  => MainDrawn(ret.steps) = MainIdx(ret.lights)
           /\ \A other \in Cameras :
                  other.viewport_size = ret.camera.viewport_size
                      => light_pass(ret.before, other, ret.lights, ret.failAt).main_out
                             = ret.main_out

\* C8 witness: a main light drawn from a camera with a view and a projection of
\* its own, while another camera has the same viewport size.
C8_Witness ==
    /\ ret.op = "light_pass" /\ ret.result = "Ok"
    /\ ret.camera.view # Identity /\ ret.camera.projection # Identity
    /\ \E i \in 1..Len(ret.lights) : ret.lights[i].is_main
    /\ \E other \in Cameras :
           other # ret.camera /\ other.viewport_size = ret.camera.viewport_size

(***************************************************************************)
(* Properties of basic_obj (checked under SpecObj).                        *)
(***************************************************************************)
\* C9: Instancing::update replaces every kind's buffer by the render list's
\* sublist of that kind, all of them or none: after the call no buffer holds
\* what it held before while another holds the new sublist.
C9_UpdateIsAllOrNothing ==
    oret.op = "Instancing::update"
        => \/ instancing = render_list
           \/ instancing = oret.before

\* C10: the kinds and the indices 0..NUM_TYPES-1 correspond one to one, so a
\* created Resources holds one mesh per kind in index order, a failed create
\* holds none, and neither create, mesh nor the render list's index panics.
C10_KindsAreDenselyIndexed ==
    /\ Cardinality(BasicObj) = NUM_TYPES
    /\ \A object \in BasicObj :
           /\ to_usize(object) # None
           /\ to_usize(object)[1] \in 0..(NUM_TYPES - 1)
           /\ from_usize(to_usize(object)[1]) = Some(object)
    /\ oret.op = "from_usize"
           => IF oret.i < NUM_TYPES
              THEN oret.object # None /\ oret.back = Some(oret.i)
              ELSE oret.object = None
    /\ oret.op = "Resources::create"
           => /\ oret.result = (IF oret.failAt = NoFail THEN "Ok" ELSE "Err")
              /\ resources.created = (oret.result = "Ok")
    /\ resources.created
           => /\ Len(resources.meshes) = NUM_TYPES
              /\ \A i \in 0..(NUM_TYPES - 1) :
                     resources.meshes[i + 1] = [mesh |-> from_usize(i)[1]]
    /\ oret.op = "Resources::mesh"
           => oret.result = "Ok" /\ oret.found.value = [mesh |-> oret.object]
    /\ oret.op = "RenderList::index_mut" => oret.result = "Ok"

\* C10 witness: the mesh of the last kind is looked up in a created Resources.
C10_Witness ==
    /\ oret.op = "Resources::mesh"
    /\ oret.object = "TessellatedCylinder"
    /\ oret.result = "Ok"
    /\ Len(render_list[NUM_TYPES]) > 0

====
